---- MODULE Spec2Model ----
(***************************************************************************)
(* CPU scheduling simulator (src/script.js): readProcesses, the five       *)
(* scheduling algorithms fcfs, sjf, srtf, prioritySchedule and roundRobin, *)
(* and the part of compute() that chains them.                             *)
(*                                                                         *)
(* Times are JavaScript numbers in the source.  The model counts time in   *)
(* units of 1/Scale, so that the number 1 of the source is Scale units and *)
(* non-integer arrivals, bursts and quanta are representable.              *)
(***************************************************************************)
EXTENDS Integers, Sequences, FiniteSets, TLC

\* ------------------------------------------------------------------ bounds
Scale == 2          \* model time units per 1.0 of program time
MaxProcs == 2       \* rows in the exhaustive family of inputs
MaxArrival == 2     \* largest arrival in the exhaustive family (whole numbers)
MaxBurst == 2       \* largest burst in the exhaustive family (whole numbers)
MaxPriority == 2    \* priorities 1..MaxPriority in the exhaustive family
MaxQuantum == 1     \* quanta -1..MaxQuantum (whole numbers)

T(n) == n * Scale

\* ------------------------------------------------------------- data model
IDLE == "IDLE"      \* pid of an idle block
NullPID == "null"   \* lastPID = null in srtf

\* Collation order of the pids the model uses: a.pid.localeCompare(b.pid)
\* orders them as listed (distinct pids collate differently).  The idle
\* marker is reserved: no process is called "IDLE".
PidOrder == <<"A", "B", "C", "D", "P1", "P2", "P3", "P4", "P5">>

Rank(pid) == CHOOSE k \in 1..Len(PidOrder) : PidOrder[k] = pid

localeCompare(a, b) == Rank(a) - Rank(b)

Proc(pid, at, bt, pr) == [pid |-> pid, arrival |-> at, burst |-> bt, priority |-> pr]

Range(s) == {s[k] : k \in 1..Len(s)}

\* JavaScript's a || b on numbers: a unless a is 0.
OrElse(a, b) == IF a # 0 THEN a ELSE b

\* Array.prototype.sort with the comparator cmp[a, b] (stable): the element
\* at index i goes after the elements that compare lower and the equal ones
\* before it.
SortBy(s, cmp) ==
  LET len == Len(s)
      pos(i) == 1 + Cardinality({j \in 1..len : \/ cmp[s[j], s[i]] < 0
                                                \/ cmp[s[j], s[i]] = 0 /\ j < i})
  IN [k \in 1..len |-> s[CHOOSE i \in 1..len : pos(i) = k]]

\* Math.min(...xs) of a non-empty set of numbers.
Min(S) == CHOOSE x \in S : \A y \in S : x <= y

Max(S) == CHOOSE x \in S : \A y \in S : x >= y

RECURSIVE SumOver(_, _)
SumOver(f, S) == IF S = {} THEN 0
                 ELSE LET x == CHOOSE y \in S : TRUE IN f[x] + SumOver(f, S \ {x})

\* ---------------------------------------------------------------- inputs
Perms(n) == {p \in [1..n -> 1..n] : \A a, b \in 1..n : a # b => p[a] # p[b]}

\* The algorithm field: $('#algo').value.
Algos == {"FCFS", "SJF", "SRTF", "PR", "RR"}

\* Every table of 1..MaxProcs rows, in every row order, with whole-number
\* arrivals 0..MaxArrival and bursts 1..MaxBurst.  Only prioritySchedule
\* reads a priority (the others copy it into the result), so the priorities
\* range over 1..MaxPriority for it and are 1 for the others.
WholeAttrs(a) == [arrival : {T(k) : k \in 0..MaxArrival},
                  burst : {T(k) : k \in 1..MaxBurst},
                  priority : IF a = "PR" THEN 1..MaxPriority ELSE {1}]

IsWholeRows(a, r) ==
  \E m \in 1..MaxProcs : \E p \in Perms(m) : \E t \in [1..m -> WholeAttrs(a)] :
    r = [k \in 1..m |-> Proc(PidOrder[p[k]], t[k].arrival, t[k].burst, t[k].priority)]

\* Tables with non-integer arrivals and bursts (multiples of 1/Scale).
FracAttrs == [arrival : 0..(Scale + 1), burst : 1..(Scale + 1), priority : {1}]

IsFracRows(r) ==
  \E m \in 1..2 : \E t \in [1..m -> FracAttrs] :
    r = [k \in 1..m |-> Proc(PidOrder[k], t[k].arrival, t[k].burst, t[k].priority)]

\* The sample table of seedSample and the scenarios of the specification.
SeedSample == <<Proc("P1", T(0), T(7), 2), Proc("P2", T(2), T(4), 1),
                Proc("P3", T(4), T(1), 3), Proc("P4", T(5), T(4), 4),
                Proc("P5", T(6), T(6), 2)>>

ScenarioRows ==
  { SeedSample,
    <<Proc("P1", T(0), T(7), 2), Proc("P2", T(2), T(4), 1), Proc("P3", T(4), T(1), 3)>>,
    <<Proc("P3", T(4), T(1), 3), Proc("P1", T(0), T(7), 2), Proc("P2", T(2), T(4), 1)>>,
    <<Proc("P1", T(0), T(7), 1), Proc("P2", T(2), T(4), 1)>>,
    <<Proc("P2", T(1), T(3), 1), Proc("P1", T(0), T(5), 1)>>,
    <<Proc("P1", T(0), T(5), 1), Proc("P2", T(1), T(3), 1)>>,
    <<Proc("P1", T(3), T(2), 1)>>,
    <<Proc("C", T(0), T(2), 1), Proc("B", T(0), T(3), 2), Proc("A", T(1), T(1), 2)>>,
    <<Proc("B", T(0), T(1), 1), Proc("C", T(3), T(2), 2), Proc("A", T(3), T(2), 1)>> }

\* Tables of 0..2 rows that readProcesses or compute may refuse: a missing
\* pid (empty after trim), a pid given twice, a negative arrival, a burst
\* that is 0 or negative.
BadAttrs == [pid : {"", "A", "B"}, arrival : {0 - 1, 0}, burst : {0 - 1, 0, T(1)},
             priority : {1}]

IsBadRows(r) ==
  \E m \in 0..2 : \E t \in [1..m -> BadAttrs] :
    r = [k \in 1..m |-> Proc(t[k].pid, t[k].arrival, t[k].burst, t[k].priority)]

IsInputRows(a, r) ==
  IsWholeRows(a, r) \/ IsFracRows(r) \/ r \in ScenarioRows \/ IsBadRows(r)

\* The quantum field: Number($('#quantum').value).
Num(v) == [kind |-> "num", v |-> v]
NaN == [kind |-> "nan", v |-> 0]
Infinity == [kind |-> "inf", v |-> 0]
NegInfinity == [kind |-> "ninf", v |-> 0]

Quanta == {Num(T(k)) : k \in (0 - 1)..MaxQuantum}
          \cup {Num(T(2)), Num(Scale + 1), NaN, Infinity, NegInfinity}

\* ------------------------------------------------------------------ state
VARIABLES
  rows,        \* readProcesses: the table rows being read (local, line 14)
  processes,   \* procs: the sorted array the algorithms get
  pc,          \* "read", "select", the running algorithm, "done", "error"
               \* (an exception left compute) or "invalid" (compute returned
               \* after setError)
  err,         \* the message of setError
  algo,        \* $('#algo').value
  q,           \* Number($('#quantum').value), read when roundRobin is called
  time, blocks, res, endTime,
  i,                               \* fcfs
  ready, used, added, completed,   \* sjf, prioritySchedule
  rem, started, lastPID, blockStart, done,   \* srtf (rem also roundRobin)
  firstStart, queue, arrived       \* roundRobin

vars == <<rows, processes, pc, err, algo, q, time, blocks, res, endTime, i, ready, used,
          added, completed, rem, started, lastPID, blockStart, done, firstStart,
          queue, arrived>>

locals == <<i, ready, used, added, completed, rem, started, lastPID, blockStart,
            done, firstStart, queue, arrived>>

n == Len(processes)

Block(pid, s, e) == [pid |-> pid, start |-> s, end |-> e]

\* A record whose completion is the turnaround (the arrival taken off).
ResultCompletionIsTurnaround(p, s, c, tat, wt, resp) ==
  [start |-> s, completion |-> tat, tat |-> tat, wt |-> wt, response |-> resp,
   arrival |-> p.arrival, burst |-> p.burst, priority |-> p.priority]

\* A record whose waiting time is the turnaround (the burst not taken off).
ResultWaitIsTurnaround(p, s, c, tat, wt, resp) ==
  [start |-> s, completion |-> c, tat |-> tat, wt |-> tat, response |-> resp,
   arrival |-> p.arrival, burst |-> p.burst, priority |-> p.priority]

\* A record whose start is the arrival instead of the dispatch.
ResultStartIsArrival(p, s, c, tat, wt, resp) ==
  [start |-> p.arrival, completion |-> c, tat |-> tat, wt |-> wt, response |-> resp,
   arrival |-> p.arrival, burst |-> p.burst, priority |-> p.priority]

\* The record res.set(p.pid, {...}) stores.
Result(p, s, c, tat, wt, resp) ==
  [start |-> s, completion |-> c, tat |-> tat, wt |-> wt, response |-> resp,
   arrival |-> p.arrival, burst |-> p.burst, priority |-> p.priority]

\* Map.set(k, v)
MapSet(m, k, v) == [x \in DOMAIN m \cup {k} |-> IF x = k THEN v ELSE m[x]]

EmptyMap == [x \in {} |-> 0]

\* A record made anew at every dispatch.
EveryDispatch(m, first, p, t) == MapSet(m, p.pid, Result(p, t, 0, 0, 0, t - p.arrival))

\* Lines 183-186 and 258-261: the record of a process, made when it is
\* dispatched for the first time (first) and left alone afterwards.
FirstDispatch(m, first, p, t) ==
  IF first THEN MapSet(m, p.pid, Result(p, t, 0, 0, 0, t - p.arrival)) ELSE m

MinArrival == Min({processes[k].arrival : k \in 1..n})

\* The messages of lines 23-26 and 281; NoError is setError('').
Err(kind, pid) == [kind |-> kind, pid |-> pid]

NoError == Err("", "")

Init ==
  /\ algo \in Algos
  /\ err = NoError
  /\ q = NaN
  /\ IsInputRows(algo, rows)
  /\ processes = <<>>
  /\ pc = "read"
  /\ time = 0 /\ blocks = <<>> /\ res = EmptyMap /\ endTime = 0
  /\ i = 0
  /\ ready = <<>> /\ used = {} /\ added = {} /\ completed = 0
  /\ rem = <<>> /\ started = <<>> /\ lastPID = NullPID /\ blockStart = 0 /\ done = {}
  /\ firstStart = <<>> /\ queue = <<>> /\ arrived = {}

\* ----------------------------------------------------------- readProcesses
\* A comparator without the pid tie-break.
CompareArrivalOnly(a, b) == a.arrival - b.arrival

\* The comparator of line 31.
CompareProcs(a, b) == OrElse(a.arrival - b.arrival, localeCompare(a.pid, b.pid))

\* The checks on one row without the duplicate check of line 24.
RowErrorNoDuplicate(r, seen) ==
  IF r.pid = "" THEN Err("PID missing", "")
  ELSE IF ~(r.arrival >= 0) THEN Err("Invalid arrival", r.pid)
  ELSE IF ~(r.burst > 0) THEN Err("Invalid burst", r.pid)
  ELSE NoError

\* The checks of lines 23-26 on one row, given the pids seen before it.  The
\* numbers of the model are finite, so Number.isFinite holds and the
\* priority check of line 27 passes.
RowError(r, seen) ==
  IF r.pid = "" THEN Err("PID missing", "")
  ELSE IF r.pid \in seen THEN Err("Duplicate PID", r.pid)
  ELSE IF ~(r.arrival >= 0) THEN Err("Invalid arrival", r.pid)
  ELSE IF ~(r.burst > 0) THEN Err("Invalid burst", r.pid)
  ELSE NoError

\* The loop of lines 17-30 from row k on: the first error thrown, if any.
RECURSIVE FirstError(_, _, _)
FirstError(rs, k, seen) ==
  IF k > Len(rs) THEN NoError
  ELSE IF RowError(rs[k], seen) # NoError THEN RowError(rs[k], seen)
  ELSE FirstError(rs, k + 1, seen \cup {rs[k].pid})

\* compute() lines 277-282: procs = readProcesses(); a thrown error or an
\* empty table is reported with setError and compute returns.
ReadProcesses ==
  /\ pc = "read"
  /\ rows' = <<>>
  /\ IF FirstError(rows, 1, {}) # NoError
     THEN /\ err' = FirstError(rows, 1, {})
          /\ pc' = "invalid"
          /\ UNCHANGED processes
     ELSE IF Len(rows) = 0
     THEN /\ err' = Err("Add at least one process", "")
          /\ pc' = "invalid"
          /\ UNCHANGED processes
     ELSE /\ processes' = SortBy(rows, [a \in Range(rows), b \in Range(rows) |->
                                         CompareProcs(a, b)])
          /\ pc' = "select"
          /\ UNCHANGED err
  /\ UNCHANGED <<algo, q, time, blocks, res, endTime, locals>>

\* The dispatch of lines 286-290 and the prologue of each algorithm are the
\* Start actions below.

\* --------------------------------------------------------------------- fcfs
FcfsStart ==
  /\ pc = "select"
  /\ algo = "FCFS"
  /\ pc' = "fcfs"
  /\ time' = MinArrival
  /\ i' = 1
  /\ blocks' = <<>> /\ res' = EmptyMap
  /\ UNCHANGED <<rows, processes, err, algo, q, endTime, ready, used, added, completed, rem,
                 started, lastPID, blockStart, done, firstStart, queue, arrived>>

\* One iteration of the while loop of lines 100-112 (i counts from 1).
FcfsStep ==
  /\ pc = "fcfs"
  /\ i <= n
  /\ LET p == processes[i]
         idle == time < p.arrival
         start == IF idle THEN p.arrival ELSE time
         end == start + p.burst
     IN /\ blocks' = (IF idle THEN Append(blocks, Block(IDLE, time, p.arrival)) ELSE blocks)
                       \o <<Block(p.pid, start, end)>>
        /\ res' = MapSet(res, p.pid,
                         Result(p, start, end, end - p.arrival, start - p.arrival,
                                start - p.arrival))
        /\ time' = end
        /\ i' = i + 1
  /\ UNCHANGED <<rows, processes, err, pc, algo, q, endTime, ready, used, added, completed,
                 rem, started, lastPID, blockStart, done, firstStart, queue, arrived>>

FcfsReturn ==
  /\ pc = "fcfs"
  /\ ~(i <= n)
  /\ endTime' = time
  /\ pc' = "done"
  /\ UNCHANGED <<rows, processes, err, algo, q, time, blocks, res, locals>>

\* The indices of S in increasing order: what a for loop over 0..n-1 pushes.
RECURSIVE Ascending(_)
Ascending(S) == IF S = {} THEN <<>>
                ELSE LET m == Min(S) IN <<m>> \o Ascending(S \ {m})

\* ---------------------------------------------------------------------- sjf
\* The comparator with the burst difference reversed: longest job first.
CompareBurstReversed(ia, ib) ==
  LET a == processes[ia]
      b == processes[ib]
  IN OrElse(b.burst - a.burst, OrElse(a.arrival - b.arrival, localeCompare(a.pid, b.pid)))

\* The comparator of lines 136-139, on indices into processes.
CompareBurst(ia, ib) ==
  LET a == processes[ia]
      b == processes[ib]
  IN OrElse(a.burst - b.burst, OrElse(a.arrival - b.arrival, localeCompare(a.pid, b.pid)))

SjfStart ==
  /\ pc = "select"
  /\ algo = "SJF"
  /\ pc' = "sjf"
  /\ time' = MinArrival
  /\ completed' = 0 /\ ready' = <<>> /\ used' = {}
  /\ blocks' = <<>> /\ res' = EmptyMap
  /\ UNCHANGED <<rows, processes, err, algo, q, endTime, i, added, rem, started, lastPID,
                 blockStart, done, firstStart, queue, arrived>>

\* One iteration of the while loop of lines 124-147.
SjfStep ==
  /\ pc = "sjf"
  /\ completed < n
  /\ LET fresh == {k \in 1..n : k \notin used /\ processes[k].arrival <= time}
         ready1 == ready \o Ascending(fresh)
         used1 == used \cup fresh
         pending == {processes[k].arrival : k \in (1..n) \ used1}
     IN IF ready1 = <<>>
        THEN IF pending # {}
             THEN /\ blocks' = Append(blocks, Block(IDLE, time, Min(pending)))
                  /\ time' = Min(pending)
                  /\ ready' = ready1 /\ used' = used1
                  /\ UNCHANGED <<res, completed, pc, endTime>>
             ELSE \* break, then the return of line 148
                  /\ endTime' = time /\ pc' = "done"
                  /\ ready' = ready1 /\ used' = used1
                  /\ UNCHANGED <<blocks, time, res, completed>>
        ELSE LET sorted == SortBy(ready1, [a \in 1..n, b \in 1..n |-> CompareBurst(a, b)])
                 p == processes[Head(sorted)]
                 start == time
                 end == time + p.burst
             IN /\ ready' = Tail(sorted) /\ used' = used1
                /\ blocks' = Append(blocks, Block(p.pid, start, end))
                /\ res' = MapSet(res, p.pid,
                                 Result(p, start, end, end - p.arrival, start - p.arrival,
                                        start - p.arrival))
                /\ time' = end
                /\ completed' = completed + 1
                /\ UNCHANGED <<pc, endTime>>
  /\ UNCHANGED <<rows, processes, err, algo, q, i, added, rem, started, lastPID, blockStart,
                 done, firstStart, queue, arrived>>

SjfReturn ==
  /\ pc = "sjf"
  /\ ~(completed < n)
  /\ endTime' = time
  /\ pc' = "done"
  /\ UNCHANGED <<rows, processes, err, algo, q, time, blocks, res, locals>>

\* --------------------------------------------------------- prioritySchedule
\* The comparator with the priority difference reversed: highest value first.
ComparePriorityReversed(ia, ib) ==
  LET a == processes[ia]
      b == processes[ib]
  IN OrElse(b.priority - a.priority,
            OrElse(a.arrival - b.arrival, localeCompare(a.pid, b.pid)))

\* The comparator of lines 225-228, on indices into processes.
ComparePriority(ia, ib) ==
  LET a == processes[ia]
      b == processes[ib]
  IN OrElse(a.priority - b.priority,
            OrElse(a.arrival - b.arrival, localeCompare(a.pid, b.pid)))

PriorityStart ==
  /\ pc = "select"
  /\ algo = "PR"
  /\ pc' = "pr"
  /\ time' = MinArrival
  /\ completed' = 0 /\ ready' = <<>> /\ added' = {}
  /\ blocks' = <<>> /\ res' = EmptyMap
  /\ UNCHANGED <<rows, processes, err, algo, q, endTime, i, used, rem, started, lastPID,
                 blockStart, done, firstStart, queue, arrived>>

\* One iteration of the while loop of lines 216-233.
PriorityStep ==
  /\ pc = "pr"
  /\ completed < n
  /\ LET fresh == {k \in 1..n : k \notin added /\ processes[k].arrival <= time}
         ready1 == ready \o Ascending(fresh)
         added1 == added \cup fresh
         pending == {processes[k].arrival : k \in (1..n) \ added1}
     IN IF ready1 = <<>>
        THEN IF pending # {}
             THEN /\ blocks' = Append(blocks, Block(IDLE, time, Min(pending)))
                  /\ time' = Min(pending)
                  /\ ready' = ready1 /\ added' = added1
                  /\ UNCHANGED <<res, completed, pc, endTime>>
             ELSE \* break, then the return of line 234
                  /\ endTime' = time /\ pc' = "done"
                  /\ ready' = ready1 /\ added' = added1
                  /\ UNCHANGED <<blocks, time, res, completed>>
        ELSE LET sorted == SortBy(ready1, [a \in 1..n, b \in 1..n |-> ComparePriority(a, b)])
                 p == processes[Head(sorted)]
                 start == time
                 end == time + p.burst
             IN /\ ready' = Tail(sorted) /\ added' = added1
                /\ blocks' = Append(blocks, Block(p.pid, start, end))
                /\ res' = MapSet(res, p.pid,
                                 Result(p, start, end, end - p.arrival, start - p.arrival,
                                        start - p.arrival))
                /\ time' = end
                /\ completed' = completed + 1
                /\ UNCHANGED <<pc, endTime>>
  /\ UNCHANGED <<rows, processes, err, algo, q, i, used, rem, started, lastPID, blockStart,
                 done, firstStart, queue, arrived>>

PriorityReturn ==
  /\ pc = "pr"
  /\ ~(completed < n)
  /\ endTime' = time
  /\ pc' = "done"
  /\ UNCHANGED <<rows, processes, err, algo, q, time, blocks, res, locals>>

\* --------------------------------------------------------------------- srtf
Tick == T(1)        \* time += 1

\* The loop of srtf ends only when every remaining time hits 0 exactly; the
\* model follows a run no further than this time.
Horizon == Max({processes[k].arrival : k \in 1..n})
           + SumOver([k \in 1..n |-> processes[k].burst], 1..n) + T(2)

\* The condition without p.arrival <= time: a process is taken before it
\* has arrived.
TakesUnarrived(k, best) ==
  LET p == processes[k]
  IN /\ k \notin done
     /\ rem[k] > 0
     /\ \/ best = 0
        \/ rem[k] < rem[best]
        \/ rem[k] = rem[best] /\ OrElse(p.arrival - processes[best].arrival, 0) < 0
        \/ rem[k] = rem[best] /\ localeCompare(p.pid, processes[best].pid) < 0

\* The condition of lines 163-167 for index k to replace best (0 for the
\* source's -1, whose bestRem is Infinity).  With best = -1 the two tie
\* clauses are false: NaN || 0 is 0, and no pid sorts before ''.
Takes(k, best) ==
  LET p == processes[k]
  IN /\ k \notin done
     /\ p.arrival <= time /\ rem[k] > 0
     /\ \/ best = 0
        \/ rem[k] < rem[best]
        \/ rem[k] = rem[best] /\ OrElse(p.arrival - processes[best].arrival, 0) < 0
        \/ rem[k] = rem[best] /\ localeCompare(p.pid, processes[best].pid) < 0

\* The for loop of lines 161-171, from index k on.
RECURSIVE Scan(_, _)
Scan(k, best) == IF k > n THEN best
                 ELSE Scan(k + 1, IF Takes(k, best) THEN k ELSE best)

Best == Scan(1, 0)

\* A block closed one tick after it began: the ticks that followed are lost.
CloseBlockOneTick(bl, t) ==
  IF lastPID # NullPID THEN Append(bl, Block(lastPID, blockStart, blockStart + Tick)) ELSE bl

\* Lines 174-176 and 188-190: close the block of lastPID at time t.
CloseBlock(bl, t) ==
  IF lastPID # NullPID THEN Append(bl, Block(lastPID, blockStart, t)) ELSE bl

SrtfStart ==
  /\ pc = "select"
  /\ algo = "SRTF"
  /\ pc' = "srtf"
  /\ rem' = [k \in 1..n |-> processes[k].burst]
  /\ started' = [k \in 1..n |-> FALSE]
  /\ time' = MinArrival
  /\ lastPID' = NullPID /\ blockStart' = MinArrival
  /\ done' = {}
  /\ blocks' = <<>> /\ res' = EmptyMap
  /\ UNCHANGED <<rows, processes, err, algo, q, endTime, i, ready, used, added, completed,
                 firstStart, queue, arrived>>

\* One iteration of the while loop of lines 159-203: one tick.
SrtfStep ==
  /\ pc = "srtf"
  /\ Cardinality(done) < n
  /\ time < Horizon
  /\ LET best == Best
     IN IF best = 0
        THEN /\ IF lastPID # IDLE
                THEN /\ blocks' = CloseBlock(blocks, time)
                     /\ lastPID' = IDLE /\ blockStart' = time
                ELSE UNCHANGED <<blocks, lastPID, blockStart>>
             /\ time' = time + Tick
             /\ UNCHANGED <<res, rem, started, done>>
        ELSE LET p == processes[best]
                 res1 == FirstDispatch(res, ~started[best], p, time)
                 left == rem[best] - Tick
                 completion == time + Tick
             IN /\ started' = [started EXCEPT ![best] = TRUE]
                /\ IF lastPID # p.pid
                   THEN /\ blocks' = CloseBlock(blocks, time)
                        /\ lastPID' = p.pid /\ blockStart' = time
                   ELSE UNCHANGED <<blocks, lastPID, blockStart>>
                /\ rem' = [rem EXCEPT ![best] = left]
                /\ time' = completion
                /\ IF left = 0
                   THEN /\ res' = MapSet(res1, p.pid,
                                         [res1[p.pid] EXCEPT
                                            !.completion = completion,
                                            !.tat = completion - p.arrival,
                                            !.wt = (completion - p.arrival) - p.burst])
                        /\ done' = done \cup {best}
                   ELSE /\ res' = res1
                        /\ UNCHANGED done
  /\ UNCHANGED <<rows, processes, err, pc, algo, q, endTime, i, ready, used, added,
                 completed, firstStart, queue, arrived>>

\* Lines 204-208.
SrtfReturn ==
  /\ pc = "srtf"
  /\ ~(Cardinality(done) < n)
  /\ blocks' = SelectSeq(CloseBlock(blocks, time), LAMBDA b : b.end > b.start)
  /\ endTime' = time
  /\ pc' = "done"
  /\ UNCHANGED <<rows, processes, err, algo, q, time, res, locals>>

\* --------------------------------------------------------------- roundRobin
\* q >= 0 in place of q > 0.
NotNegative(x) == \/ x.kind = "inf"
                  \/ x.kind = "num" /\ x.v >= 0

\* q > 0 of line 239: false for NaN, true for Infinity.
Positive(x) == \/ x.kind = "inf"
               \/ x.kind = "num" /\ x.v > 0

\* A run of a whole quantum, whatever the process has left.
WholeQuantum(x, r) == IF x.kind = "num" THEN x.v ELSE r

\* Math.min(q, r) for a quantum that passed line 239.
MinQuantum(x, r) == IF x.kind = "num" /\ x.v < r THEN x.v ELSE r

\* The process that ran goes back into the queue even when it has finished.
RequeueAlways(rest, admitted, idx, left) == Append(rest \o admitted, idx)

\* The process that ran goes back before the new arrivals.
RequeueBeforeAdmit(rest, admitted, idx, left) ==
  IF left > 0 THEN Append(rest, idx) \o admitted ELSE rest \o admitted

\* Lines 265-266: the queue after a run, given the rest of the queue, the
\* indices admitted at line 265, the process that ran and what it has left.
Requeue(rest, admitted, idx, left) ==
  IF left > 0 THEN Append(rest \o admitted, idx) ELSE rest \o admitted

\* Lines 238-246; the throw of line 239 ends compute().
RoundRobinStart ==
  /\ pc = "select"
  /\ algo = "RR"
  /\ q' \in Quanta
  /\ IF ~Positive(q')
     THEN /\ pc' = "error"
          /\ UNCHANGED <<time, blocks, res, rem, firstStart, queue, arrived>>
     ELSE /\ pc' = "rr"
          /\ rem' = [k \in 1..n |-> processes[k].burst]
          /\ firstStart' = [k \in 1..n |-> <<>>]
          /\ time' = MinArrival
          /\ queue' = Ascending({k \in 1..n : processes[k].arrival <= MinArrival})
          /\ arrived' = {k \in 1..n : processes[k].arrival <= MinArrival}
          /\ blocks' = <<>> /\ res' = EmptyMap
  /\ UNCHANGED <<rows, processes, err, algo, endTime, i, ready, used, added, completed,
                 started, lastPID, blockStart, done>>

\* One iteration of the while loop of lines 247-270.
RoundRobinStep ==
  /\ pc = "rr"
  /\ queue # <<>> \/ Cardinality(arrived) < n
  /\ IF queue = <<>>
     THEN LET nextIdx == Min((1..n) \ arrived)
              nextTime == processes[nextIdx].arrival
              fresh == {k \in 1..n : k \notin arrived /\ processes[k].arrival <= nextTime}
          IN /\ blocks' = Append(blocks, Block(IDLE, time, nextTime))
             /\ time' = nextTime
             /\ queue' = queue \o Ascending(fresh)
             /\ arrived' = arrived \cup fresh
             /\ UNCHANGED <<res, rem, firstStart>>
     ELSE LET idx == Head(queue)
              p == processes[idx]
              res1 == FirstDispatch(res, firstStart[idx] = <<>>, p, time)
              run == MinQuantum(q, rem[idx])
              end == time + run
              left == rem[idx] - run
              fresh == {k \in 1..n : k \notin arrived /\ processes[k].arrival <= end}
          IN /\ firstStart' = IF firstStart[idx] = <<>>
                              THEN [firstStart EXCEPT ![idx] = <<time>>]
                              ELSE firstStart
             /\ blocks' = Append(blocks, Block(p.pid, time, end))
             /\ time' = end
             /\ rem' = [rem EXCEPT ![idx] = left]
             /\ arrived' = arrived \cup fresh
             /\ queue' = Requeue(Tail(queue), Ascending(fresh), idx, left)
             /\ IF left > 0
                THEN res' = res1
                ELSE res' = MapSet(res1, p.pid,
                                   [res1[p.pid] EXCEPT
                                      !.completion = end,
                                      !.tat = end - p.arrival,
                                      !.wt = (end - p.arrival) - p.burst])
  /\ UNCHANGED <<rows, processes, err, pc, algo, q, endTime, i, ready, used, added,
                 completed, started, lastPID, blockStart, done>>

RoundRobinReturn ==
  /\ pc = "rr"
  /\ ~(queue # <<>> \/ Cardinality(arrived) < n)
  /\ endTime' = time
  /\ pc' = "done"
  /\ UNCHANGED <<rows, processes, err, algo, q, time, blocks, res, locals>>

\* ------------------------------------------------------------ specification
Next ==
  \/ ReadProcesses
  \/ FcfsStart \/ FcfsStep \/ FcfsReturn
  \/ SjfStart \/ SjfStep \/ SjfReturn
  \/ SrtfStart \/ SrtfStep \/ SrtfReturn
  \/ PriorityStart \/ PriorityStep \/ PriorityReturn
  \/ RoundRobinStart \/ RoundRobinStep \/ RoundRobinReturn

Spec == Init /\ [][Next]_vars

\* ================================================================== claims
Pids == {processes[k].pid : k \in 1..n}

\* The indices of the returned blocks that carry pid.
BlocksOf(pid) == {k \in 1..Len(blocks) : blocks[k].pid = pid}

\* The CPU time the returned blocks give to pid.
BlockTime(pid) == SumOver([k \in 1..Len(blocks) |-> blocks[k].end - blocks[k].start],
                          BlocksOf(pid))

Returned == pc = "done"

\* C1: for every algorithm the returned blocks, in emitted order, tile
\* [min(arrival), endTime): the first starts at min(arrival), each ends where
\* the next starts, the last ends at endTime, and every block has end > start.
C1_BlocksTileTimeline ==
  Returned =>
    /\ blocks # <<>>
    /\ blocks[1].start = Min({processes[k].arrival : k \in 1..n})
    /\ \A k \in 1..(Len(blocks) - 1) : blocks[k].end = blocks[k + 1].start
    /\ blocks[Len(blocks)].end = endTime
    /\ \A k \in 1..Len(blocks) : blocks[k].end > blocks[k].start

\* A returned srtf timeline with an idle gap and a block of several ticks.
C1_Witness ==
  /\ Returned /\ algo = "SRTF"
  /\ \E k \in 1..Len(blocks) : blocks[k].pid = IDLE
  /\ \E k \in 1..Len(blocks) : blocks[k].pid # IDLE /\ blocks[k].end - blocks[k].start > Tick

\* C2: for every algorithm and every input process, the lengths of the
\* returned blocks carrying its pid add up to its burst.
C2_BlockTimeIsBurst ==
  Returned => \A k \in 1..n : BlockTime(processes[k].pid) = processes[k].burst

\* A returned round-robin timeline in which a process ran in several blocks,
\* the last one shorter than the quantum.
C2_Witness ==
  /\ Returned /\ algo = "RR" /\ q.kind = "num"
  /\ \E pid \in Pids :
       /\ Cardinality(BlocksOf(pid)) >= 2
       /\ \E k \in BlocksOf(pid) : blocks[k].end - blocks[k].start < q.v

\* The processes srtf may run at this tick: arrived and incomplete.
Runnable == {k \in 1..n : k \notin done /\ processes[k].arrival <= time /\ rem[k] > 0}

\* k is ahead of j by (remaining, arrival, pid).
Ahead(k, j) ==
  \/ rem[k] < rem[j]
  \/ rem[k] = rem[j] /\ processes[k].arrival < processes[j].arrival
  \/ /\ rem[k] = rem[j] /\ processes[k].arrival = processes[j].arrival
     /\ localeCompare(processes[k].pid, processes[j].pid) < 0

\* C3: at every tick srtf executes, among the arrived incomplete processes,
\* the one with the smallest remaining time, ties going to the earlier
\* arrival and only then to the smaller pid.
C3_SrtfPicksShortestRemaining ==
  (pc = "srtf" /\ Cardinality(done) < n /\ Runnable # {}) =>
    /\ Best \in Runnable
    /\ \A j \in Runnable \ {Best} : Ahead(Best, j)

\* What C4 says of one step of the program.
C4_Step ==
  (pc = "rr" /\ queue # <<>>) =>
    LET idx == Head(queue)
        run == IF q.kind = "num" /\ q.v < rem[idx] THEN q.v ELSE rem[idx]
        fresh == {k \in 1..n : k \notin arrived /\ processes[k].arrival <= time + run}
        admitted == Ascending(fresh)
    IN /\ time' = time + run
       /\ rem'[idx] = rem[idx] - run
       /\ arrived' = arrived \cup fresh
       /\ \A a, b \in 1..Len(admitted) :
            a < b => processes[admitted[a]].arrival <= processes[admitted[b]].arrival
       /\ IF rem'[idx] > 0
          THEN queue' = (Tail(queue) \o admitted) \o <<idx>>
          ELSE /\ queue' = Tail(queue) \o admitted
               /\ res'[processes[idx].pid].completion = time'
       /\ \A k \in 1..n : rem'[k] = 0 => k \notin Range(queue')

\* C4: after roundRobin has run the head of the queue for min(quantum,
\* remaining), the processes not yet admitted whose arrival is <= the end of
\* the run join the queue in arrival order before the process that ran, which
\* is put back at the tail only if it has burst left; otherwise its result is
\* finalized and it is not in the queue again.
C4_AdmitBeforeRequeue == [][C4_Step]_vars

\* The process that just ran is at the tail, behind a process that arrived
\* exactly at the end of its run.
C4_Witness ==
  /\ pc = "rr" /\ Len(queue) >= 2
  /\ LET last == queue[Len(queue)]
         prev == queue[Len(queue) - 1]
     IN /\ blocks # <<>> /\ blocks[Len(blocks)].pid = processes[last].pid
        /\ rem[last] > 0
        /\ firstStart[prev] = <<>>
        /\ processes[prev].arrival = time

\* The scenario of C5: P1(0,5), P2(1,3), quantum 2.
C5_Scenario ==
  /\ algo = "RR" /\ q = Num(T(2)) /\ n = 2
  /\ processes[1].pid = "P1" /\ processes[1].arrival = T(0) /\ processes[1].burst = T(5)
  /\ processes[2].pid = "P2" /\ processes[2].arrival = T(1) /\ processes[2].burst = T(3)

\* C5 as stated: the scenario returns the blocks [P1 0-2, P2 2-4, P1 4-6,
\* P2 6-7] with P1 completing at 6 and P2 at 7.
C5_ScenarioAsStated ==
  (Returned /\ C5_Scenario) =>
    /\ blocks = <<Block("P1", T(0), T(2)), Block("P2", T(2), T(4)),
                  Block("P1", T(4), T(6)), Block("P2", T(6), T(7))>>
    /\ res["P1"].completion = T(6)
    /\ res["P2"].completion = T(7)

\* C5 as amended: the scenario returns the blocks [P1 0-2, P2 2-4, P1 4-6,
\* P2 6-7, P1 7-8] with P1 completing at 8 and P2 at 7.
C5_ScenarioAsRun ==
  (Returned /\ C5_Scenario) =>
    /\ blocks = <<Block("P1", T(0), T(2)), Block("P2", T(2), T(4)),
                  Block("P1", T(4), T(6)), Block("P2", T(6), T(7)),
                  Block("P1", T(7), T(8))>>
    /\ res["P1"].completion = T(8)
    /\ res["P2"].completion = T(7)

C5_Witness == Returned /\ C5_Scenario

RoundRobinCalled == algo = "RR" /\ pc \in {"rr", "done", "error"}

\* C6 as stated: roundRobin fails, before any block or result, unless the
\* quantum is a finite number > 0.
C6_RejectsAllButFinitePositive ==
  RoundRobinCalled =>
    /\ pc = "error" <=> ~(q.kind = "num" /\ q.v > 0)
    /\ pc = "error" => blocks = <<>> /\ res = EmptyMap

\* C6 as amended: roundRobin fails, before any block or result, exactly when
\* the quantum is NaN, -Infinity or a number <= 0; it runs on every quantum
\* > 0, +Infinity included.
C6_RejectsNotPositive ==
  RoundRobinCalled =>
    /\ pc = "error" <=> (q.kind \in {"nan", "ninf"} \/ (q.kind = "num" /\ q.v <= 0))
    /\ pc = "error" => blocks = <<>> /\ res = EmptyMap

C6_Witness == algo = "RR" /\ pc = "error" /\ q = Num(0) /\ blocks = <<>>

\* C7: on return of every algorithm there is one record per input process,
\* with turnaround = completion - arrival, waiting = turnaround - burst,
\* response = start - arrival, waiting >= 0, turnaround >= burst and
\* response >= 0.
C7_ResultRecords ==
  Returned =>
    /\ DOMAIN res = Pids
    /\ Cardinality(DOMAIN res) = n
    /\ \A k \in 1..n :
         LET p == processes[k]
             r == res[p.pid]
         IN /\ r.tat = r.completion - p.arrival
            /\ r.wt = r.tat - p.burst
            /\ r.response = r.start - p.arrival
            /\ r.wt >= 0 /\ r.tat >= p.burst /\ r.response >= 0

\* A returned run in which a process waited both before and after its first
\* dispatch.
C7_Witness ==
  /\ Returned
  /\ \E pid \in Pids : res[pid].response > 0 /\ res[pid].wt > res[pid].response

\* C8: fcfs, sjf and prioritySchedule return every pid in exactly one block,
\* as long as the burst, starting at the recorded start of the process.
C8_OneBlockPerProcess ==
  (Returned /\ algo \in {"FCFS", "SJF", "PR"}) =>
    \A k \in 1..n :
      LET p == processes[k]
      IN /\ Cardinality(BlocksOf(p.pid)) = 1
         /\ \A b \in BlocksOf(p.pid) :
              /\ blocks[b].end - blocks[b].start = p.burst
              /\ res[p.pid].start = blocks[b].start

\* sjf returned a run in which a shorter process arrived while a longer one
\* was running.
C8_Witness ==
  /\ Returned /\ algo = "SJF"
  /\ \E j, k \in 1..n : \E b \in BlocksOf(processes[j].pid) :
       /\ blocks[b].start < processes[k].arrival
       /\ processes[k].arrival < blocks[b].end
       /\ processes[k].burst < processes[j].burst

\* What C9 says of a returned run.
C9_Returned ==
  (Returned /\ algo \in {"SRTF", "RR"}) =>
    \A k \in 1..n :
      LET p == processes[k]
      IN /\ BlocksOf(p.pid) # {}
         /\ res[p.pid].start = blocks[Min(BlocksOf(p.pid))].start
         /\ res[p.pid].response = res[p.pid].start - p.arrival

\* What C9 says of one step of the program.
C9_Step ==
  pc \in {"srtf", "rr"} =>
    \A pid \in DOMAIN res :
      /\ pid \in DOMAIN res'
      /\ res'[pid].start = res[pid].start
      /\ res'[pid].response = res[pid].response

\* C9: in srtf and roundRobin the recorded start of a process is the start of
\* the first block carrying its pid, its response is start - arrival, and no
\* later step changes the start or the response once recorded.
C9_FirstDispatchFixed == []C9_Returned /\ [][C9_Step]_vars

\* A returned run in which a process waited for its first dispatch and was
\* dispatched again later.
C9_Witness ==
  /\ Returned /\ algo \in {"SRTF", "RR"}
  /\ \E pid \in Pids : res[pid].response > 0 /\ Cardinality(BlocksOf(pid)) >= 2

\* What C10 says of one step of the program.
C10_Step ==
  pc = "read" /\ pc' = "select" =>
    /\ Len(processes') = Len(rows)
    /\ Range(processes') = Range(rows)
    /\ \A j, k \in 1..Len(processes') :
         j < k => \/ processes'[j].arrival < processes'[k].arrival
                  \/ /\ processes'[j].arrival = processes'[k].arrival
                     /\ localeCompare(processes'[j].pid, processes'[k].pid) < 0
    /\ rows' = <<>>

\* C10: the rows may be supplied in any order: readProcesses hands the
\* algorithms the one arrangement of the rows by arrival, then pid, and the
\* supplied order is read by nothing after it.
C10_OrderIndependent == [][C10_Step]_vars

\* Three rows about to be read, supplied neither in arrival nor in pid order.
C10_Witness ==
  /\ pc = "read" /\ Len(rows) >= 3
  /\ rows[1].arrival > rows[2].arrival
  /\ localeCompare(rows[1].pid, rows[2].pid) > 0

\* ---------------------------------------------------------------------- C11
\* C11: every algorithm terminates with every process completed, its
\* remaining burst exactly zero; srtf advances in ticks of 1 and finishes a
\* process only when its remaining time is exactly 0.  The loops of srtf and
\* roundRobin exit only through the finished processes, so a process that a
\* running loop still waits for has burst left to run, a finished one has
\* none, and no remaining burst passes below zero.
C11_EveryProcessCompletes ==
  /\ pc = "srtf" =>
       \A k \in 1..n : /\ k \in done => rem[k] = 0
                       /\ k \notin done => rem[k] > 0
  /\ pc = "rr" => \A k \in 1..n : rem[k] >= 0
  /\ Returned /\ algo \in {"SRTF", "RR"} => \A k \in 1..n : rem[k] = 0

\* ---------------------------------------------------------------------- C12
\* The inputs C12 names: an empty table, a missing pid, a pid given twice, a
\* negative arrival, a burst that is not positive.
Refused(r) ==
  \/ Len(r) = 0
  \/ \E k \in 1..Len(r) : \/ r[k].pid = ""
                          \/ r[k].arrival < 0
                          \/ r[k].burst <= 0
                          \/ \E j \in 1..Len(r) : j # k /\ r[j].pid = r[k].pid

\* The message e names a problem that table r has.
Identifies(e, r) ==
  \/ e.kind = "Add at least one process" /\ Len(r) = 0
  \/ e.kind = "PID missing" /\ \E k \in 1..Len(r) : r[k].pid = ""
  \/ e.kind = "Duplicate PID" /\
       \E j, k \in 1..Len(r) : j # k /\ r[j].pid = e.pid /\ r[k].pid = e.pid
  \/ e.kind = "Invalid arrival" /\
       \E k \in 1..Len(r) : r[k].pid = e.pid /\ r[k].arrival < 0
  \/ e.kind = "Invalid burst" /\
       \E k \in 1..Len(r) : r[k].pid = e.pid /\ r[k].burst <= 0

C12_Step ==
  /\ pc = "read" /\ Refused(rows) =>
       /\ pc' = "invalid"
       /\ Identifies(err', rows)
       /\ processes' = <<>> /\ blocks' = <<>> /\ res' = EmptyMap
  /\ pc # "invalid"

C12_NothingProduced ==
  /\ pc = "invalid" => processes = <<>> /\ blocks = <<>> /\ res = EmptyMap
  /\ pc \notin {"read", "invalid"} => n > 0 /\ Cardinality(Pids) = n

\* C12: a refused input (empty table, missing or duplicate pid, arrival < 0,
\* burst <= 0) ends the run with a message that identifies the problem
\* before any algorithm is called: no step follows, no block and no result
\* exists, and an algorithm only ever sees processes with distinct pids.
C12_RefusedBeforeScheduling == []C12_NothingProduced /\ [][C12_Step]_vars

\* A table with a pid given twice has been refused.
C12_Witness == pc = "invalid" /\ err.kind = "Duplicate PID" /\ blocks = <<>>

\* ---------------------------------------------------------------------- C13
\* The index in processes of the process named pid.
IndexOf(pid) == CHOOSE k \in 1..n : processes[k].pid = pid

\* The blocks that are not IDLE, in timeline order.
Runs == SelectSeq(blocks, LAMBDA b : b.pid # IDLE)

\* Process a comes before process b in fcfs: earlier arrival, then pid.
ArrivesBefore(a, b) ==
  \/ a.arrival < b.arrival
  \/ a.arrival = b.arrival /\ Rank(a.pid) < Rank(b.pid)

C13_Scenario ==
  processes = <<Proc("P1", T(0), T(7), 2), Proc("P2", T(2), T(4), 1),
                Proc("P3", T(4), T(1), 3)>>

\* C13: fcfs runs the processes in order of arrival, ties by pid, each for
\* its whole burst in one block, and response equals waiting; on P1(0,7),
\* P2(2,4), P3(4,1) it returns P1 0-7, P2 7-11, P3 11-12 with waiting 0, 5, 7.
C13_FcfsArrivalOrder ==
  Returned /\ algo = "FCFS" =>
    /\ Len(Runs) = n
    /\ \A k \in 1..Len(Runs) :
         /\ Runs[k].end - Runs[k].start = processes[IndexOf(Runs[k].pid)].burst
         /\ \A j \in 1..(k - 1) :
              ArrivesBefore(processes[IndexOf(Runs[j].pid)],
                            processes[IndexOf(Runs[k].pid)])
    /\ \A pid \in Pids : /\ res[pid].response = res[pid].wt
                         /\ res[pid].wt = res[pid].start - res[pid].arrival
    /\ C13_Scenario =>
         /\ blocks = <<Block("P1", T(0), T(7)), Block("P2", T(7), T(11)),
                       Block("P3", T(11), T(12))>>
         /\ res["P1"].wt = T(0) /\ res["P2"].wt = T(5) /\ res["P3"].wt = T(7)

\* fcfs has returned from the three processes of the scenario.
C13_Witness == Returned /\ algo = "FCFS" /\ C13_Scenario /\ Len(blocks) = 3

\* ---------------------------------------------------------------------- C14
\* The processes that have arrived by the current time and have not run.
Waiting == {k \in 1..n : processes[k].arrival <= time /\ processes[k].pid \notin DOMAIN res}

\* The block a step has appended.
Appended == blocks'[Len(blocks')]

\* Process a is chosen before process b in sjf: burst, then arrival, then pid.
ShorterFirst(a, b) ==
  \/ a.burst < b.burst
  \/ a.burst = b.burst /\ a.arrival < b.arrival
  \/ a.burst = b.burst /\ a.arrival = b.arrival /\ Rank(a.pid) < Rank(b.pid)

\* A decision point of sjf with a process waiting: the step runs the
\* shortest of them from now for its whole burst.
C14_Step ==
  pc = "sjf" /\ completed < n /\ Waiting # {} =>
    /\ Len(blocks') = Len(blocks) + 1
    /\ Appended.pid \in {processes[k].pid : k \in Waiting}
    /\ Appended.start = time
    /\ Appended.end = time + processes[IndexOf(Appended.pid)].burst
    /\ time' = Appended.end
    /\ \A j \in Waiting : processes[j].pid # Appended.pid =>
         ShorterFirst(processes[IndexOf(Appended.pid)], processes[j])

C14_Returned ==
  Returned /\ algo = "SJF" /\ C13_Scenario =>
    blocks = <<Block("P1", T(0), T(7)), Block("P3", T(7), T(8)), Block("P2", T(8), T(12))>>

\* C14: at every decision point sjf dispatches, among the processes that have
\* arrived and not yet run, the one with the smallest burst (ties by arrival,
\* then pid) and runs it to completion; on P1(0,7), P2(2,4), P3(4,1) the
\* blocks are P1 0-7, P3 7-8, P2 8-12.
C14_SjfShortestWaiting == []C14_Returned /\ [][C14_Step]_vars

\* sjf has returned a timeline in which a later arrival ran before an
\* earlier one because its burst is shorter.
C14_Witness ==
  /\ Returned /\ algo = "SJF"
  /\ \E j, k \in 1..Len(blocks) :
       /\ j < k /\ blocks[j].pid # IDLE /\ blocks[k].pid # IDLE
       /\ processes[IndexOf(blocks[j].pid)].arrival > processes[IndexOf(blocks[k].pid)].arrival
       /\ processes[IndexOf(blocks[j].pid)].burst < processes[IndexOf(blocks[k].pid)].burst

\* ---------------------------------------------------------------------- C15
\* Process a is chosen before process b in prioritySchedule: lower priority
\* value, then arrival, then pid.
MoreUrgentFirst(a, b) ==
  \/ a.priority < b.priority
  \/ a.priority = b.priority /\ a.arrival < b.arrival
  \/ a.priority = b.priority /\ a.arrival = b.arrival /\ Rank(a.pid) < Rank(b.pid)

\* A decision point of prioritySchedule with a process waiting: the step
\* runs the one with the lowest priority value for its whole burst.
C15_Step ==
  pc = "pr" /\ completed < n /\ Waiting # {} =>
    /\ Len(blocks') = Len(blocks) + 1
    /\ Appended.pid \in {processes[k].pid : k \in Waiting}
    /\ Appended.start = time
    /\ Appended.end = time + processes[IndexOf(Appended.pid)].burst
    /\ time' = Appended.end
    /\ \A j \in Waiting : processes[j].pid # Appended.pid =>
         MoreUrgentFirst(processes[IndexOf(Appended.pid)], processes[j])

\* No block of a process was cut short by an arrival: one block, whole burst.
C15_Returned ==
  Returned /\ algo = "PR" =>
    \A pid \in Pids :
      /\ Cardinality(BlocksOf(pid)) = 1
      /\ \A k \in BlocksOf(pid) :
           blocks[k].end - blocks[k].start = processes[IndexOf(pid)].burst

\* C15: prioritySchedule dispatches, among the processes that have arrived
\* and not yet run, the one with the lowest priority value (ties by arrival,
\* then pid), and a running process is never displaced by a later arrival
\* of lower priority value.
C15_PriorityLowestValue == []C15_Returned /\ [][C15_Step]_vars

\* prioritySchedule has returned a timeline in which a process of lower
\* priority value arrived during the block of another, which ran on to its
\* end, and then ran ahead of an earlier arrival.
C15_Witness ==
  /\ Returned /\ algo = "PR"
  /\ \E j, k \in 1..Len(blocks) :
       /\ j < k /\ blocks[j].pid # IDLE /\ blocks[k].pid # IDLE
       /\ processes[IndexOf(blocks[k].pid)].priority < processes[IndexOf(blocks[j].pid)].priority
       /\ processes[IndexOf(blocks[k].pid)].arrival > blocks[j].start
       /\ processes[IndexOf(blocks[k].pid)].arrival < blocks[j].end

\* ---------------------------------------------------------------------- C16
C16_Scenario == processes = <<Proc("P1", T(0), T(7), 1), Proc("P2", T(2), T(4), 1)>>

\* C16: consecutive ticks of the same identity (a process or IDLE) form one
\* block of srtf: neighbouring blocks meet in time and never share a pid,
\* also while the timeline is being built; on P1(0,7), P2(2,4) the blocks
\* are P1 0-2, P2 2-6, P1 6-11.
C16_SrtfCoalesces ==
  algo = "SRTF" /\ pc \in {"srtf", "done"} =>
    /\ \A k \in 1..(Len(blocks) - 1) :
         /\ blocks[k].pid # blocks[k + 1].pid
         /\ blocks[k].end = blocks[k + 1].start
    /\ pc = "srtf" /\ blocks # <<>> =>
         /\ blocks[Len(blocks)].pid # lastPID
         /\ blocks[Len(blocks)].end = blockStart
    /\ Returned /\ C16_Scenario =>
         blocks = <<Block("P1", T(0), T(2)), Block("P2", T(2), T(6)), Block("P1", T(6), T(11))>>

\* srtf has returned the three blocks of the scenario: P1 is preempted, and
\* each block spans several ticks.
C16_Witness ==
  /\ Returned /\ algo = "SRTF" /\ C16_Scenario
  /\ Len(blocks) = 3
  /\ \A k \in 1..3 : blocks[k].end - blocks[k].start > Tick

\* ---------------------------------------------------------------------- C17
\* The processes that have arrived by time t and complete after it.
ReadyAt(t) ==
  {k \in 1..n : processes[k].arrival <= t /\ res[processes[k].pid].completion > t}

\* C17: in the timeline of every algorithm no block is empty, a block is
\* IDLE exactly when no process has arrived and is unfinished at any time
\* in it, and an IDLE block ends at the arrival of a process.
C17_IdleOnlyWhenNothingReady ==
  Returned =>
    \A k \in 1..Len(blocks) :
      /\ blocks[k].end > blocks[k].start
      /\ blocks[k].pid = IDLE <=>
           \A t \in blocks[k].start..(blocks[k].end - 1) : ReadyAt(t) = {}
      /\ blocks[k].pid = IDLE =>
           \E j \in 1..n : processes[j].arrival = blocks[k].end

\* ---------------------------------------------------------------------- C18
\* C18: no process runs before it has arrived: every block of a process, in
\* every algorithm and at every point of the run, starts at or after the
\* arrival of its process, and so does the block srtf has open.
C18_NoRunBeforeArrival ==
  pc \notin {"read", "invalid"} =>
    /\ \A k \in 1..Len(blocks) :
         blocks[k].pid # IDLE =>
           blocks[k].start >= processes[IndexOf(blocks[k].pid)].arrival
    /\ pc = "srtf" /\ lastPID \notin {NullPID, IDLE} =>
         blockStart >= processes[IndexOf(lastPID)].arrival

\* A returned timeline with an IDLE block, after which a process runs from
\* the moment of its arrival.
C18_Witness ==
  /\ Returned
  /\ \E k \in 1..(Len(blocks) - 1) :
       /\ blocks[k].pid = IDLE /\ blocks[k + 1].pid # IDLE
       /\ blocks[k + 1].start = processes[IndexOf(blocks[k + 1].pid)].arrival

\* ---------------------------------------------------------------------- C19
\* The queue of roundRobin at the head of the loop: no index twice, exactly
\* the admitted processes with burst remaining, and admitted are exactly
\* the processes that have arrived by now.
C19_Queue ==
  pc = "rr" =>
    /\ \A a, b \in 1..Len(queue) : a # b => queue[a] # queue[b]
    /\ Range(queue) = {k \in arrived : rem[k] > 0}
    /\ arrived = {k \in 1..n : processes[k].arrival <= time}

\* An admitted process stays admitted, and an iteration puts into the queue
\* only the processes it admits and the one it ran.
C19_Step ==
  pc = "rr" /\ pc' = "rr" =>
    /\ arrived \subseteq arrived'
    /\ Range(queue') \subseteq Range(queue) \cup (arrived' \ arrived)

\* C19: at every iteration of roundRobin the queue holds each process index
\* at most once, only admitted processes (arrival <= time) with remaining
\* burst, and every admitted unfinished process; a process is admitted once.
C19_QueueInvariant == []C19_Queue /\ [][C19_Step]_vars

\* The loop of roundRobin has run, one admitted process has finished and
\* left the queue, and two others are queued.
C19_Witness ==
  /\ pc = "rr" /\ blocks # <<>>
  /\ Len(queue) >= 2
  /\ \E k \in arrived : rem[k] = 0

\* ---------------------------------------------------------------------- C20
\* C20: in what an algorithm returns, the completion of every process is the
\* end of the last block with its pid, and endTime is the largest completion
\* and the end of the last block, which is never IDLE.
C20_CompletionIsLastBlockEnd ==
  Returned =>
    /\ \A pid \in Pids :
         /\ BlocksOf(pid) # {}
         /\ res[pid].completion = blocks[Max(BlocksOf(pid))].end
    /\ endTime = Max({res[pid].completion : pid \in Pids})
    /\ endTime = blocks[Len(blocks)].end
    /\ blocks[Len(blocks)].pid # IDLE

\* A returned timeline of several blocks in which the process that
\* completes last arrived after time 0 and ran in more than one block.
C20_Witness ==
  /\ Returned
  /\ \E pid \in Pids :
       /\ res[pid].completion = endTime
       /\ res[pid].arrival > 0
       /\ Cardinality(BlocksOf(pid)) > 1

====
